---- MODULE Spec2Model ----
(***************************************************************************)
(* Model of rag_system.py: the UniversalRAG question-answering pipeline.   *)
(*                                                                         *)
(* One run of answer(question) is a walk of pc through                     *)
(*   Idle -> Validating -> search_wikipedia -> search_duckduckgo_api ->    *)
(*   search_web's deduplication -> (no evidence | context + generation)    *)
(*   -> Done,   or -> Raised when an exception leaves answer().            *)
(* Every HTTP response (open search, page summary, instant answer,         *)
(* generation backend) is an input drawn from a small set.                 *)
(*                                                                         *)
(* Strings are sequences of one-character strings, so that len(), lower(), *)
(* strip() and slicing are computed, not assumed.  JSON values are tagged  *)
(* records [t, v]: t = "str" (v the characters) or t = "none" (null).      *)
(***************************************************************************)
EXTENDS Integers, Sequences, FiniteSets, TLC

(***************************************************************************)
(* Program constants.                                                      *)
(***************************************************************************)
MinLen == 50
TitleCut == 80
TopCands == 3
TopTopics == 4
MaxResults == 5

(***************************************************************************)
(* Bounds of the model: how many candidates an open-search body lists and  *)
(* how many related topics an instant-answer body lists.                   *)
(***************************************************************************)
MaxTitles == 4
MaxTopics == 5

(***************************************************************************)
(* Strings and JSON values.                                                *)
(***************************************************************************)
Rep(c, n) == [k \in 1..n |-> c]

Str(s) == [t |-> "str", v |-> s]
None == [t |-> "none", v |-> <<>>]

IsStr(x) == x.t = "str"

\* Python truthiness of a JSON value: None and "" are falsy.
Truthy(x) == x.t = "str" /\ Len(x.v) > 0

IsWs(c) == c \in {" ", "\n", "\t"}

LowerChar(c) ==
    CASE c = "A" -> "a"
      [] c = "B" -> "b"
      [] c = "C" -> "c"
      [] OTHER -> c

\* str.lower()
Lower(s) == [k \in 1..Len(s) |-> LowerChar(s[k])]

RECURSIVE LStrip(_)
LStrip(s) == IF s # <<>> /\ IsWs(Head(s)) THEN LStrip(Tail(s)) ELSE s

RECURSIVE RStrip(_)
RStrip(s) ==
    IF s # <<>> /\ IsWs(s[Len(s)]) THEN RStrip(SubSeq(s, 1, Len(s) - 1)) ELSE s

\* str.strip()
Strip(s) == RStrip(LStrip(s))

\* s[:n]
Take(s, n) == SubSeq(s, 1, IF Len(s) < n THEN Len(s) ELSE n)

\* dict.get(k, default) on a JSON object modelled as a function on its keys.
Get(d, k, default) == IF k \in DOMAIN d THEN d[k] ELSE default

\* str(x) as an f-string renders it.
Format(x) == IF x.t = "str" THEN x.v ELSE <<"None">>

Min(a, b) == IF a < b THEN a ELSE b

(***************************************************************************)
(* Input strings.                                                          *)
(***************************************************************************)
Letters == <<"a", "b", "c", "d", "e", "f", "g", "h">>
TopicLetters == <<"p", "q", "r", "s", "t", "u", "v", "w">>

\* 51 characters: just above the admission threshold.
LongText(c) == Rep(c, MinLen + 1)
\* exactly 50 characters: not above the threshold.
EdgeText(c) == Rep(c, MinLen)
\* 51 characters of which 50 are trailing blanks.
PaddedText(c) == <<c>> \o Rep(" ", MinLen)
\* 81 characters: longer than the title cut.
WideText(c) == Rep(c, TitleCut + 1)

Questions == {<<>>, <<" ", " ">>, <<" ", "q", "?">>}

VARIABLES
    pc,              \* where the run of answer() stands
    use_ollama,      \* self.use_ollama
    question,        \* the argument of answer()
    calls,           \* clients invoked during the current run, in order
    response,        \* the search call's response of the running source client
    titles,          \* search_wikipedia: search_data[1]
    descriptions,    \* search_wikipedia: search_data[2]
    links,           \* search_wikipedia: search_data[3]
    i,               \* search_wikipedia: loop index (1-based)
    last,            \* how the latest candidate of search_wikipedia was handled
    fallbacks,       \* results of the current run that are short-description fallbacks
    wiki_results,    \* search_web: wiki_results
    ddg_results,     \* search_web: ddg_results
    search_results,  \* answer: search_results
    context,         \* answer: context
    prompt,          \* answer: prompt
    backend,         \* the generation backend's response to the request
    generated,       \* what the generation client returned
    result           \* the return value of answer()

vars == <<pc, use_ollama, question, calls, response, titles, descriptions, links,
          i, last, fallbacks, wiki_results, ddg_results, search_results, context, prompt,
          backend, generated, result>>

NoResponse == [neterr |-> FALSE, status |-> 0, shape |-> "none"]
NoCandidate == [candidate |-> 0, how |-> "none", detail |-> NoResponse, long |-> FALSE]
NoBackend == [fail |-> "no", status |-> 0, shape |-> "none", has |-> FALSE]
NoResult == [answer |-> <<>>, sources |-> <<>>]

Init ==
    /\ pc = "Idle"
    /\ use_ollama \in BOOLEAN
    /\ question = <<>>
    /\ calls = <<>>
    /\ response = NoResponse
    /\ titles = <<>>
    /\ descriptions = <<>>
    /\ links = <<>>
    /\ i = 0
    /\ last = NoCandidate
    /\ fallbacks = {}
    /\ wiki_results = <<>>
    /\ ddg_results = <<>>
    /\ search_results = <<>>
    /\ context = <<>>
    /\ prompt = <<>>
    /\ backend = NoBackend
    /\ generated = <<>>
    /\ result = NoResult

(***************************************************************************)
(* answer(): entry and validation.                                         *)
(***************************************************************************)
PleaseAsk == <<"Please ask a question!">>

\* answer(question) is called.
Ask(q) ==
    /\ pc = "Idle"
    /\ pc' = "Validating"
    /\ question' = q
    /\ UNCHANGED <<use_ollama, calls, response, titles, descriptions, links, i,
                   last, fallbacks, wiki_results, ddg_results, search_results, context,
                   prompt, backend, generated, result>>

\* Variant: the whitespace test is forgotten.
IsBlank_EmptyOnly(q) == q = <<>>

\* not question or question.strip() == ""
IsBlank(q) == q = <<>> \/ Strip(q) = <<>>

Validate ==
    /\ pc = "Validating"
    /\ IF IsBlank(question)
       THEN /\ result' = [answer |-> PleaseAsk, sources |-> <<>>]
            /\ pc' = "Done"
       ELSE /\ pc' = "Searching"
            /\ UNCHANGED result
    /\ UNCHANGED <<use_ollama, question, calls, response, titles, descriptions,
                   links, i, last, fallbacks, wiki_results, ddg_results, search_results,
                   context, prompt, backend, generated>>

(***************************************************************************)
(* search_wikipedia(): the open-search call.                               *)
(***************************************************************************)
Result(title, snippet, link) == [title |-> title, snippet |-> snippet, link |-> link]

\* The candidate titles of an open-search body, by pattern.
TitleAt(pattern, k) ==
    CASE pattern = "null" /\ k = 1 -> None
      [] pattern = "case" /\ k = 2 -> Str(<<"A">>)
      [] OTHER -> Str(<<Letters[k]>>)

TitleList(pattern, n) == [k \in 1..n |-> TitleAt(pattern, k)]

\* Short descriptions: the second candidate's is the empty string.
DescList(n) == [k \in 1..n |-> IF k = 2 THEN Str(<<>>) ELSE Str(<<"d", Letters[k]>>)]

LinkList(n) == [k \in 1..n |-> Str(<<"u", Letters[k]>>)]

\* The JSON array [query, titles, descriptions, links], cut after len elements.
SearchArray(pattern, n, len) ==
    SubSeq(<<<<Str(<<"q">>)>>, TitleList(pattern, n), DescList(n), LinkList(n)>>, 1, len)

SearchResponses ==
    {[neterr |-> TRUE, status |-> 0, shape |-> "none", len |-> 0, data |-> <<>>]}
    \cup {[neterr |-> FALSE, status |-> s, shape |-> "nonjson", len |-> 0, data |-> <<>>] :
            s \in {200, 500}}
    \cup {[neterr |-> FALSE, status |-> s, shape |-> "object", len |-> n, data |-> <<>>] :
            s \in {200, 500}, n \in {1, 2}}
    \cup {[neterr |-> FALSE, status |-> s, shape |-> "array", len |-> len,
           data |-> SearchArray("plain", n, len)] :
            s \in {200, 500}, n \in 0..MaxTitles, len \in 1..4}
    \cup {[neterr |-> FALSE, status |-> 200, shape |-> "array", len |-> 4,
           data |-> SearchArray(pattern, MaxTitles, 4)] : pattern \in {"null", "case"}}

\* requests.get raises, response.json() raises, or indexing a JSON object raises.
SearchRaises(r) ==
    \/ r.neterr
    \/ r.shape = "nonjson"
    \/ r.shape = "object" /\ r.len > 1

\* search_data[k] if len(search_data) > k else []   (k 0-based in the source)
Element(r, k) == IF r.shape = "array" /\ r.len > k THEN r.data[k + 1] ELSE <<>>

Summary(r) == [neterr |-> r.neterr, status |-> r.status, shape |-> r.shape]

WikiSearch(r) ==
    /\ pc = "Searching"
    /\ calls' = Append(calls, "search_wikipedia")
    /\ response' = Summary(r)
    /\ IF SearchRaises(r)
       THEN /\ pc' = "wiki_ret"
            /\ UNCHANGED <<titles, descriptions, links, i>>
       ELSE /\ pc' = "wiki_loop"
            /\ titles' = Element(r, 1)
            /\ descriptions' = Element(r, 2)
            /\ links' = Element(r, 3)
            /\ i' = 1
    /\ wiki_results' = <<>>
    /\ last' = NoCandidate
    /\ fallbacks' = {}
    /\ UNCHANGED <<use_ollama, question, ddg_results, search_results, context, prompt,
                   backend, generated, result>>

(***************************************************************************)
(* search_wikipedia(): one iteration of the loop over titles[:3].          *)
(***************************************************************************)
\* A page-summary body: a JSON object with some of the keys extract, title,
\* content_urls.  content_urls stands for the nested {desktop: {page: url}}
\* object when it is a string, and is null otherwise.
SummaryBodies ==
    {[extract |-> Str(LongText("x"))],
     [extract |-> Str(LongText("x")), title |-> None],
     [extract |-> Str(LongText("x")), content_urls |-> None],
     [extract |-> Str(PaddedText("x"))],
     [extract |-> Str(EdgeText("x"))],
     [title |-> Str(<<"A">>)]}

DetailResponses ==
    {[neterr |-> TRUE, status |-> 0, shape |-> "none", data |-> [none |-> None]],
     [neterr |-> FALSE, status |-> 404, shape |-> "object", data |-> [none |-> None]],
     [neterr |-> FALSE, status |-> 200, shape |-> "nonjson", data |-> [none |-> None]]}
    \cup {[neterr |-> FALSE, status |-> 200, shape |-> "object", data |-> b] :
            b \in SummaryBodies}

\* extract and len(extract) > 50
Substantial(x) == Truthy(x) /\ Len(x.v) > MinLen

LongExtract(d) ==
    /\ ~d.neterr
    /\ d.status = 200
    /\ d.shape = "object"
    /\ Substantial(Get(d.data, "extract", Str(<<>>)))

\* The try block of one iteration raises: title.replace on a non-string, the
\* request fails, the body is not JSON, or .get is called on a null content_urls.
DetailRaises(title, d) ==
    \/ ~IsStr(title)
    \/ d.neterr
    \/ d.status = 200 /\ d.shape = "nonjson"
    \/ LongExtract(d) /\ ~IsStr(Get(d.data, "content_urls", Str(<<>>)))

\* links[i] if i < len(links) else ''
LinkAt(k) == IF k <= Len(links) THEN links[k] ELSE Str(<<>>)

\* i < len(descriptions) and descriptions[i]
HasDescription(k) == k <= Len(descriptions) /\ Truthy(descriptions[k])

Limit == Min(TopCands, Len(titles))

Handled(k, how, d) ==
    [candidate |-> k, how |-> how, detail |-> Summary(d), long |-> LongExtract(d)]

WikiDetail(d) ==
    /\ pc = "wiki_loop"
    /\ i <= Limit
    /\ LET title == titles[i]
           fallback == Result(title, descriptions[i], LinkAt(i))
           admitted == Result(Get(d.data, "title", title), d.data["extract"],
                              Get(d.data, "content_urls", LinkAt(i)))
       IN  IF DetailRaises(title, d)
           THEN IF HasDescription(i)
                THEN /\ wiki_results' = Append(wiki_results, fallback)
                     /\ last' = Handled(i, "fallback", d)
                     /\ fallbacks' = IF LongExtract(d) THEN fallbacks
                                     ELSE fallbacks \cup {fallback}
                ELSE /\ last' = Handled(i, "skipped", d)
                     /\ UNCHANGED <<wiki_results, fallbacks>>
           ELSE IF LongExtract(d)
                THEN /\ wiki_results' = Append(wiki_results, admitted)
                     /\ last' = Handled(i, "extract", d)
                     /\ UNCHANGED fallbacks
                ELSE /\ last' = Handled(i, "skipped", d)
                     /\ UNCHANGED <<wiki_results, fallbacks>>
    /\ i' = i + 1
    /\ UNCHANGED <<pc, use_ollama, question, calls, response, titles, descriptions,
                   links, ddg_results, search_results, context, prompt, backend, generated,
                   result>>

\* The loop is over: return results.
WikiReturn ==
    /\ pc = "wiki_loop"
    /\ i > Limit
    /\ pc' = "wiki_ret"
    /\ last' = NoCandidate
    /\ UNCHANGED <<use_ollama, question, calls, response, titles, descriptions, links,
                   i, fallbacks, wiki_results, ddg_results, search_results, context,
                   prompt, backend, generated, result>>

(***************************************************************************)
(* search_duckduckgo_api(): one call, then the abstract and the topics.    *)
(***************************************************************************)
MainAnswer == <<"M", "a", "i", "n", " ", "A", "n", "s", "w", "e", "r">>
Ellipsis == <<".", ".", ".">>

\* A related topic: a JSON object (a function on its keys) or another value.
Topic(text) == [isdict |-> TRUE, obj |-> [Text |-> Str(text), FirstURL |-> Str(<<"f">>)]]
Group == [isdict |-> TRUE, obj |-> [Name |-> Str(<<"n">>)]]
Scalar == [isdict |-> FALSE, obj |-> [Name |-> Str(<<"n">>)]]

TopicAt(pattern, k) ==
    CASE pattern = "same" -> Topic(LongText(TopicLetters[1]))
      [] pattern = "mixed" /\ k = 1 -> Scalar
      [] pattern = "mixed" /\ k = 2 -> Group
      [] pattern = "mixed" /\ k = 3 -> Topic(EdgeText(TopicLetters[3]))
      [] pattern = "mixed" /\ k = 4 -> Topic(WideText(TopicLetters[4]))
      [] OTHER -> Topic(LongText(TopicLetters[k]))

TopicList(pattern, n) == [k \in 1..n |-> TopicAt(pattern, k)]

TopicLists ==
    {TopicList("plain", n) : n \in 0..MaxTopics}
    \cup {TopicList(pattern, MaxTopics) : pattern \in {"same", "mixed"}}

\* The abstract part of an instant-answer body.
AbstractParts ==
    {[AbstractURL |-> Str(<<"v">>)],
     [Abstract |-> None],
     [Abstract |-> Str(EdgeText("y")), Heading |-> Str(<<"m">>)],
     [Abstract |-> Str(LongText("y"))],
     [Abstract |-> Str(LongText("y")), Heading |-> Str(<<"A">>), AbstractURL |-> Str(<<"v">>)],
     [Abstract |-> Str(LongText("y")), Heading |-> Str(<<"a", " ">>)],
     [Abstract |-> Str(LongText("y")), Heading |-> None],
     [Abstract |-> Str(PaddedText("y")), Heading |-> Str(<<"m">>)]}

InstantResponses ==
    {[neterr |-> TRUE, status |-> 0, shape |-> "none", data |-> [none |-> None],
      topics |-> <<>>]}
    \cup {[neterr |-> FALSE, status |-> s, shape |-> sh, data |-> [none |-> None],
           topics |-> <<>>] : s \in {200, 500}, sh \in {"nonjson", "array"}}
    \cup {[neterr |-> FALSE, status |-> s, shape |-> "object", data |-> a, topics |-> ts] :
            s \in {200, 500}, a \in AbstractParts, ts \in TopicLists}

\* requests.get raises, response.json() raises, or data is not a JSON object.
InstantRaises(r) == r.neterr \/ r.shape # "object"

\* The abstract, when data.get('Abstract') is substantial.
AbstractResults(data) ==
    IF Substantial(Get(data, "Abstract", None))
    THEN <<Result(Get(data, "Heading", Str(MainAnswer)),
                  Get(data, "Abstract", None),
                  Get(data, "AbstractURL", Str(<<>>)))>>
    ELSE <<>>

\* text[:80] + '...' if len(text) > 80 else text
TopicTitle(text) == IF Len(text) > TitleCut THEN Take(text, TitleCut) \o Ellipsis ELSE text

TopicResults(topic) ==
    IF topic.isdict /\ "Text" \in DOMAIN topic.obj
    THEN LET text == Get(topic.obj, "Text", Str(<<>>))
         IN  IF Len(text.v) > MinLen
             THEN <<Result(Str(TopicTitle(text.v)), text,
                           Get(topic.obj, "FirstURL", Str(<<>>)))>>
             ELSE <<>>
    ELSE <<>>

RECURSIVE Flatten(_)
Flatten(ss) == IF ss = <<>> THEN <<>> ELSE Head(ss) \o Flatten(Tail(ss))

\* The whole body of search_duckduckgo_api on response r.
InstantResults(r) ==
    IF InstantRaises(r)
    THEN <<>>
    ELSE AbstractResults(r.data)
         \o Flatten([k \in 1..Min(TopTopics, Len(r.topics)) |-> TopicResults(r.topics[k])])

\* search_web: the Wikipedia results are in; call search_duckduckgo_api.
DdgSearch(r) ==
    /\ pc = "wiki_ret"
    /\ pc' = "ddg_ret"
    /\ calls' = Append(calls, "search_duckduckgo_api")
    /\ response' = Summary(r)
    /\ ddg_results' = InstantResults(r)
    /\ titles' = <<>>
    /\ descriptions' = <<>>
    /\ links' = <<>>
    /\ i' = 0
    /\ UNCHANGED <<use_ollama, question, last, fallbacks, wiki_results, search_results,
                   context, prompt, backend, generated, result>>

(***************************************************************************)
(* search_web(): concatenation, deduplication by title, truncation.        *)
(***************************************************************************)
\* result['title'].lower()
Normalize(title) == Lower(title.v)

RECURSIVE Unique(_, _)
Unique(rs, seen_titles) ==
    IF rs = <<>>
    THEN <<>>
    ELSE LET title_lower == Normalize(Head(rs).title)
         IN  IF title_lower \notin seen_titles /\ Truthy(Head(rs).snippet)
             THEN <<Head(rs)>> \o Unique(Tail(rs), seen_titles \cup {title_lower})
             ELSE Unique(Tail(rs), seen_titles)

\* Variant: the slice is forgotten.
Top_Uncut(rs) == rs

\* unique_results[:5]
Top(rs) == Take(rs, MaxResults)

\* .lower() on a title that is not a string raises AttributeError.
DedupRaises(rs) == \E k \in 1..Len(rs) : ~IsStr(rs[k].title)

SearchWeb(wiki, ddg) == Top(Unique(wiki \o ddg, {}))

Aggregate ==
    /\ pc = "ddg_ret"
    /\ IF DedupRaises(wiki_results \o ddg_results)
       THEN /\ pc' = "Raised"
            /\ UNCHANGED search_results
       ELSE /\ pc' = "Searched"
            /\ search_results' = SearchWeb(wiki_results, ddg_results)
    /\ response' = NoResponse
    /\ UNCHANGED <<use_ollama, question, calls, titles, descriptions, links, i, last,
                   fallbacks, wiki_results, ddg_results, context, prompt, backend, generated,
                   result>>

(***************************************************************************)
(* answer(): no evidence, or context, prompt and generation.               *)
(***************************************************************************)
CouldNotFind == <<"I couldn't find information for this question.">>

\* Variant: the early return is forgotten and the run goes on to generation.
NoEvidence_FallsThrough ==
    /\ pc = "Searched"
    /\ search_results = <<>>
    /\ pc' = "Generating"
    /\ UNCHANGED <<use_ollama, question, calls, response, titles, descriptions, links,
                   i, last, fallbacks, wiki_results, ddg_results, search_results,
                   context, prompt, backend, generated, result>>

NoEvidence ==
    /\ pc = "Searched"
    /\ search_results = <<>>
    /\ pc' = "Done"
    /\ result' = [answer |-> CouldNotFind, sources |-> <<>>]
    /\ UNCHANGED <<use_ollama, question, calls, response, titles, descriptions, links,
                   i, last, fallbacks, wiki_results, ddg_results, search_results,
                   context, prompt, backend, generated>>

ContextHeader == <<"Information from web sources:\n\n">>

\* Variant: enumerate() without its start argument numbers the blocks from 0.
Block_ZeroBased(k, r) ==
    <<"[Source ", ToString(k - 1), "] ">> \o Format(r.title) \o <<":\n">>
    \o Format(r.snippet) \o <<"\n\n">>

\* f"[Source {i}] {result['title']}:\n{result['snippet']}\n\n"
Block(k, r) ==
    <<"[Source ", ToString(k), "] ">> \o Format(r.title) \o <<":\n">>
    \o Format(r.snippet) \o <<"\n\n">>

BuildContext(rs) == ContextHeader \o Flatten([k \in 1..Len(rs) |-> Block(k, rs[k])])

BuildPrompt(c, q) ==
    <<"You are a helpful AI assistant. [...] context.\n\n">> \o c
    \o <<"\n\nQuestion: ">> \o q \o <<"\n\nInstructions: [...]\n\nAnswer:">>

ContextReady ==
    /\ pc = "Searched"
    /\ search_results # <<>>
    /\ pc' = "Generating"
    /\ context' = BuildContext(search_results)
    /\ prompt' = BuildPrompt(BuildContext(search_results), question)
    /\ UNCHANGED <<use_ollama, question, calls, response, titles, descriptions, links,
                   i, last, fallbacks, wiki_results, ddg_results, search_results,
                   backend, generated, result>>

(***************************************************************************)
(* call_ollama() and call_openai().                                        *)
(***************************************************************************)
CannotConnect == <<"Cannot connect to Ollama! Please start Ollama: [...]">>

\* What the backend does with the request.  fail: "refused" (ConnectionError),
\* "timeout" (another RequestException) or "no"; has: the body carries the text.
GenResponses ==
    {[fail |-> "refused", status |-> 0, shape |-> "none", has |-> FALSE],
     [fail |-> "timeout", status |-> 0, shape |-> "none", has |-> FALSE],
     [fail |-> "no", status |-> 500, shape |-> "object", has |-> FALSE],
     [fail |-> "no", status |-> 200, shape |-> "nonjson", has |-> FALSE],
     [fail |-> "no", status |-> 200, shape |-> "object", has |-> FALSE],
     [fail |-> "no", status |-> 200, shape |-> "object", has |-> TRUE]}

GeneratedText == <<"g", "e", "n">>

\* f"Error: {str(e)}"
ErrorText(what) == <<"Error: ", what>>

\* Parsing a 200 body: the text, or the exception the lookup raises.
Parsed(g, missing) ==
    CASE g.shape = "nonjson" -> ErrorText("JSONDecodeError")
      [] ~g.has -> ErrorText(missing)
      [] OTHER -> GeneratedText

\* Variant: no handler for ConnectionError; the generic handler catches it.
call_ollama_Generic(g) ==
    CASE g.fail \in {"refused", "timeout"} -> ErrorText(g.fail)
      [] g.status = 200 -> Parsed(g, "'response'")
      [] OTHER -> <<"Ollama error (status ", ToString(g.status), ")">>

call_ollama(g) ==
    CASE g.fail = "refused" -> CannotConnect
      [] g.fail = "timeout" -> ErrorText("timeout")
      [] g.status = 200 -> Parsed(g, "'response'")
      [] OTHER -> <<"Ollama error (status ", ToString(g.status), ")">>

call_openai(g) ==
    CASE g.fail = "refused" -> ErrorText("refused")
      [] g.fail = "timeout" -> ErrorText("timeout")
      [] g.status = 200 -> Parsed(g, "'choices'")
      [] OTHER -> <<"OpenAI error: ", ToString(g.status)>>

Generate(g) ==
    /\ pc = "Generating"
    /\ pc' = "Done"
    /\ LET answer == IF use_ollama THEN call_ollama(g) ELSE call_openai(g)
       IN  /\ generated' = answer
           /\ backend' = g
           /\ result' = [answer |-> answer, sources |-> search_results]
    /\ calls' = Append(calls, IF use_ollama THEN "call_ollama" ELSE "call_openai")
    /\ UNCHANGED <<use_ollama, question, response, titles, descriptions, links, i, last,
                   fallbacks, wiki_results, ddg_results, search_results, context, prompt>>

\* answer() has returned or raised; main()'s loop reads the next question.
Return ==
    /\ pc \in {"Done", "Raised"}
    /\ pc' = "Idle"
    /\ question' = <<>>
    /\ calls' = <<>>
    /\ response' = NoResponse
    /\ titles' = <<>>
    /\ descriptions' = <<>>
    /\ links' = <<>>
    /\ i' = 0
    /\ last' = NoCandidate
    /\ fallbacks' = {}
    /\ wiki_results' = <<>>
    /\ ddg_results' = <<>>
    /\ search_results' = <<>>
    /\ context' = <<>>
    /\ prompt' = <<>>
    /\ backend' = NoBackend
    /\ generated' = <<>>
    /\ result' = NoResult
    /\ UNCHANGED use_ollama

Next ==
    \/ \E q \in Questions : Ask(q)
    \/ Validate
    \/ \E r \in SearchResponses : WikiSearch(r)
    \/ \E d \in DetailResponses : WikiDetail(d)
    \/ WikiReturn
    \/ \E r \in InstantResponses : DdgSearch(r)
    \/ Aggregate
    \/ NoEvidence
    \/ ContextReady
    \/ \E g \in GenResponses : Generate(g)
    \/ Return

Spec == Init /\ [][Next]_vars

(***************************************************************************)
(* Properties.                                                             *)
(***************************************************************************)
Range(f) == {f[k] : k \in DOMAIN f}

WhitespaceOnly(q) == \A k \in 1..Len(q) : IsWs(q[k])

GenerationCalls == {"call_ollama", "call_openai"}
SourceCalls == {"search_wikipedia", "search_duckduckgo_api"}

\* C1: whatever the two source clients returned, the sequence search_web
\* returns (and answer passes on as sources) has at most 5 entries.
C1_AtMostFive ==
    /\ Len(search_results) <= 5
    /\ Len(result.sources) <= 5

\* C1 witness: the clients returned more than 5 results with distinct
\* lowercased titles and search_web returned exactly 5 of them.
C1_Witness ==
    /\ pc = "Searched"
    /\ Len(wiki_results) + Len(ddg_results) > 5
    /\ Cardinality({Lower(r.title.v) : r \in Range(wiki_results \o ddg_results)}) > 5
    /\ Len(search_results) = 5

\* The deduplication key the specification describes: lowercased and trimmed.
TrimmedKey(title) == Strip(Lower(title.v))

\* C2: in the output of search_web no two results have titles that differ only
\* in letter case and/or leading/trailing whitespace, and each result kept is
\* the first of the concatenation (Wikipedia first, DuckDuckGo second) with its
\* title up to case and whitespace.
C2_CollapseCaseAndWhitespace ==
    pc = "Searched" =>
        LET all_results == wiki_results \o ddg_results
        IN  /\ \A k, l \in 1..Len(search_results) :
                   k # l => TrimmedKey(search_results[k].title)
                            # TrimmedKey(search_results[l].title)
            /\ \A k \in 1..Len(search_results) :
                   \E m \in 1..Len(all_results) :
                       /\ all_results[m] = search_results[k]
                       /\ \A j \in 1..(m - 1) :
                              TrimmedKey(all_results[j].title)
                              # TrimmedKey(search_results[k].title)

\* len(snippet.strip()) >= 50
SubstantialTrimmed(r) == Len(Strip(r.snippet.v)) >= 50

\* C3: every result search_web returns has a snippet of at least 50 characters
\* after trimming, unless it is a Wikipedia short-description fallback of a
\* candidate for which no longer text was at hand; a DuckDuckGo result is
\* never excepted.
C3_NoShortSnippet ==
    pc = "Searched" =>
        \A k \in 1..Len(search_results) :
            LET r == search_results[k]
            IN  \/ SubstantialTrimmed(r)
                \/ r \in fallbacks /\ r \in Range(wiki_results)

\* C4: a run on an empty or whitespace-only question invokes no client, goes
\* from validation straight to Done, and returns the prompt-for-input message
\* with empty sources.
C4_BlankQuestion ==
    (pc # "Idle" /\ WhitespaceOnly(question)) =>
        /\ calls = <<>>
        /\ pc \in {"Validating", "Done"}
        /\ pc = "Done" => result = [answer |-> PleaseAsk, sources |-> <<>>]

\* C4 witness: answer("  ") has returned.
C4_Witness ==
    /\ pc = "Done"
    /\ question = <<" ", " ">>
    /\ result.answer = PleaseAsk

\* C5: when the question is not blank and both source clients returned the
\* empty sequence, the run never reaches generation and ends with the
\* could-not-find message and empty sources.
C5_NoEvidence ==
    (/\ ~WhitespaceOnly(question)
     /\ pc \in {"Searched", "Generating", "Done"}
     /\ wiki_results = <<>>
     /\ ddg_results = <<>>) =>
        /\ pc # "Generating"
        /\ Range(calls) \cap GenerationCalls = {}
        /\ pc = "Done" => result = [answer |-> CouldNotFind, sources |-> <<>>]

\* C5 witness: both clients were invoked, both returned nothing, answer returned.
C5_Witness ==
    /\ pc = "Done"
    /\ calls = <<"search_wikipedia", "search_duckduckgo_api">>
    /\ wiki_results = <<>>
    /\ ddg_results = <<>>
    /\ result.answer = CouldNotFind

\* C6: when search_web returned a non-empty sequence, answer returns exactly
\* that sequence as sources and exactly the generation client's return value
\* as answer, whatever the backend did; with the local backend refusing the
\* connection the answer is the start-Ollama guidance and sources is non-empty.
C6_SourcesSurviveGeneration ==
    (pc = "Done" /\ search_results # <<>>) =>
        /\ result.sources = search_results
        /\ result.sources = SearchWeb(wiki_results, ddg_results)
        /\ result.answer = generated
        /\ Range(calls) \cap GenerationCalls # {}
        /\ (use_ollama /\ backend.fail = "refused") =>
               /\ result.answer = CannotConnect
               /\ result.sources # <<>>

\* C6 witness: the local backend refused the connection after a successful search.
C6_Witness ==
    /\ pc = "Done"
    /\ use_ollama
    /\ backend.fail = "refused"
    /\ Len(result.sources) >= 2

\* The search call failed as a whole: network error, non-2xx status, or a body
\* that is not the JSON the client expects.
FetchFailed(r, expected) ==
    \/ r.neterr
    \/ r.status \notin 200..299
    \/ r.shape # expected

\* C7: a source client whose search call failed as a whole (network error,
\* non-2xx status, malformed body) returns the empty sequence and does not raise.
C7_FailedFetchIsEmpty ==
    /\ (pc = "wiki_ret" /\ FetchFailed(response, "array")) => wiki_results = <<>>
    /\ (pc = "ddg_ret" /\ FetchFailed(response, "object")) => ddg_results = <<>>

\* C8: whatever the sources and the backend respond, no exception leaves
\* search_web or answer, and answer returns an answer text and a source list.
C8_NeverRaises ==
    /\ pc # "Raised"
    /\ pc = "Done" => result.answer # <<>>

\* Where the k-th block of the context starts.
RECURSIVE BlockStart(_)
BlockStart(k) ==
    IF k = 1
    THEN Len(ContextHeader) + 1
    ELSE BlockStart(k - 1) + 5 + Len(search_results[k - 1].title.v)
         + Len(search_results[k - 1].snippet.v)

\* C9: the context built from n aggregated results holds exactly n blocks; the
\* k-th starts with the label "[Source k]" and carries the k-th result's title
\* and then its unmodified snippet, in aggregation order.
C9_NumberedBlocks ==
    pc = "Generating" =>
        LET n == Len(search_results)
        IN  /\ n \in 1..5
            /\ Cardinality({p \in 1..Len(context) : context[p] = "[Source "}) = n
            /\ Len(context) = BlockStart(n + 1) - 1
            /\ \A k \in 1..n :
                   LET p == BlockStart(k)
                       title == search_results[k].title.v
                       snippet == search_results[k].snippet.v
                       q == p + 3 + Len(title)
                   IN  /\ SubSeq(context, p, p + 2) = <<"[Source ", ToString(k), "] ">>
                       /\ SubSeq(context, p + 3, q - 1) = title
                       /\ context[q] = ":\n"
                       /\ SubSeq(context, q + 1, q + Len(snippet)) = snippet
                       /\ context[q + Len(snippet) + 1] = "\n\n"
            /\ (Len(wiki_results) = 1 /\ ddg_results = <<>>) =>
                   /\ n = 1
                   /\ context[Len(ContextHeader) + 2] = "1"

\* C9 witness: a context of five blocks has been built.
C9_Witness ==
    /\ pc = "Generating"
    /\ Len(search_results) = 5
    /\ Len(context) > 5 * 50

\* C10: a candidate of search_wikipedia is admitted with its extract only when
\* the extract is longer than 50 characters, and a candidate not admitted with
\* its extract (extract absent or short, non-200 status, failed call) is
\* admitted with its short description whenever it has one.
C10_FallbackWheneverDescribed ==
    (pc = "wiki_loop" /\ last.how # "none") =>
        /\ last.how = "extract" => last.long
        /\ (last.how # "extract" /\ HasDescription(last.candidate)) =>
               /\ last.how = "fallback"
               /\ wiki_results # <<>>
               /\ wiki_results[Len(wiki_results)].snippet = descriptions[last.candidate]
====
